---- MODULE Spec2Model ----
(***************************************************************************)
(* Smart Irrigation Advisory dashboard (improved_irrigation_app.py).       *)
(*                                                                         *)
(* The Streamlit script is re-executed from top to bottom on every user    *)
(* interaction.  One execution is one step of the model (ScriptRun): it    *)
(* reads the widget values, initialises the session state when the key is  *)
(* missing, runs the button handler when the button was pressed and        *)
(* finally renders the sidebar.  The only state that survives from one     *)
(* execution to the next is st.session_state.                              *)
(*                                                                         *)
(* Numbers are integers (degrees, percent, millimetres).  Localised text   *)
(* of the Gujarati and Hindi tables is transliterated to ASCII.            *)
(***************************************************************************)
EXTENDS Integers, Sequences, FiniteSets, TLC

VARIABLES
    session_state,          \* st.session_state: a mapping, key "irrigation_logs"
    button,                 \* st.button(...) of the last execution
    location,               \* widget values read by the last execution
    crop_type,
    soil_moisture,
    language,
    fetched,                \* what requests.get produced in the last execution
    fetches,                \* number of requests.get calls of the last execution
    error,                  \* text given to st.error in the last execution
    recent_logs,            \* rows of the History tab in the last execution
    csv_data,               \* data of the download button in the last execution
    quick_stats,            \* the sidebar's Quick Stats of the last execution
    args,                   \* arguments of a direct get_irrigation_advice call
    result                  \* and what the call returned

vars == <<session_state, button, location, crop_type, soil_moisture, language,
          fetched, fetches, error, recent_logs, csv_data, quick_stats,
          args, result>>

sessionVars == <<session_state, button, location, crop_type, soil_moisture,
                 language, fetched, fetches, error, recent_logs, csv_data,
                 quick_stats>>

-----------------------------------------------------------------------------
(* Bounds of the model.                                                    *)

\* most entries the log grows to in the session specification
MaxLog == 2

\* most entries the log grows to in the history specification
MaxHistory == 6

-----------------------------------------------------------------------------
(* Static tables.                                                          *)

Languages == {"English", "Gujarati", "Hindi"}

translations ==
    [English |->
        [recommended   |-> "Irrigation Recommended",
         not_needed    |-> "No Irrigation Needed",
         error_weather |-> "Unable to fetch weather data. Please check your location.",
         error_api     |-> "Weather service temporarily unavailable. Please try again later."],
     Gujarati |->
        [recommended   |-> "Sinchai karvani bhalaman chhe",
         not_needed    |-> "Sinchaini jarur nathi",
         error_weather |-> "Havaman mahiti melavavaman asamarth. Krupa karine tamarun sthan tapaso.",
         error_api     |-> "Havaman seva asthayi rupe anupalabdh chhe. Krupa karine farithi prayas karo."],
     Hindi |->
        [recommended   |-> "Sinchai ki sifarish ki jati hai",
         not_needed    |-> "Sinchai ki avashyakta nahin hai",
         error_weather |-> "Mausam data prapt karne mein asamarth. Kripaya apna sthan janchen.",
         error_api     |-> "Mausam seva asthayi rup se anupalabdh hai. Kripaya baad mein punah prayas karen."]]

CropNames == {"Wheat", "Rice", "Cotton", "Sugarcane", "Maize", "Barley", "Soybean"}

crop_requirements ==
    [Wheat     |-> [min_moisture |-> 30, temp_threshold |-> 25, rain_threshold |-> 3],
     Rice      |-> [min_moisture |-> 70, temp_threshold |-> 30, rain_threshold |-> 8],
     Cotton    |-> [min_moisture |-> 35, temp_threshold |-> 28, rain_threshold |-> 5],
     Sugarcane |-> [min_moisture |-> 60, temp_threshold |-> 32, rain_threshold |-> 10],
     Maize     |-> [min_moisture |-> 40, temp_threshold |-> 26, rain_threshold |-> 4],
     Barley    |-> [min_moisture |-> 25, temp_threshold |-> 24, rain_threshold |-> 3],
     Soybean   |-> [min_moisture |-> 45, temp_threshold |-> 27, rain_threshold |-> 6]]

HumidityThreshold == 40

-----------------------------------------------------------------------------
(* get_irrigation_advice                                                   *)

\* a bool counted by sum()
BoolInt(b) == IF b THEN 1 ELSE 0

\* CropLookup with the first table entry's neighbour as the default
CropLookup_rice(crop) ==
    IF crop \in DOMAIN crop_requirements
    THEN crop_requirements[crop]
    ELSE crop_requirements["Rice"]

\* crop_requirements.get(crop, crop_requirements["Wheat"])
CropLookup(crop) ==
    IF crop \in DOMAIN crop_requirements
    THEN crop_requirements[crop]
    ELSE crop_requirements["Wheat"]

\* irrigation_score with the temperature factor counted at the threshold too
irrigation_score_inclusive(crop, soil, temp, humidity, rainfall) ==
    LET req == IF crop \in DOMAIN crop_requirements
               THEN crop_requirements[crop]
               ELSE crop_requirements["Wheat"]
    IN  BoolInt(soil < req.min_moisture)
      + BoolInt(temp >= req.temp_threshold)
      + BoolInt(rainfall < req.rain_threshold)
      + BoolInt(humidity < HumidityThreshold)

\* sum(factors.values())
irrigation_score(crop, soil, temp, humidity, rainfall) ==
    LET req == CropLookup(crop)
    IN  BoolInt(soil < req.min_moisture)
      + BoolInt(temp > req.temp_threshold)
      + BoolInt(rainfall < req.rain_threshold)
      + BoolInt(humidity < HumidityThreshold)

get_irrigation_advice(crop, soil, temp, humidity, rainfall) ==
    LET score == irrigation_score(crop, soil, temp, humidity, rainfall)
    IN  IF score >= 3 THEN [irrigate |-> TRUE,  priority |-> "High Priority",   water_score |-> 75]
        ELSE IF score >= 2 THEN [irrigate |-> TRUE,  priority |-> "Medium Priority", water_score |-> 85]
        ELSE [irrigate |-> FALSE, priority |-> "Not Needed", water_score |-> 95]

-----------------------------------------------------------------------------
(* Session state and the log.                                              *)

\* a session in which no script execution has run yet
EmptySession == [k \in {} |-> <<>>]

\* InitSessionState without the membership test
InitSessionState_reset(ss) == [k \in {"irrigation_logs"} |-> <<>>]

\* if 'irrigation_logs' not in st.session_state: st.session_state.irrigation_logs = []
InitSessionState(ss) ==
    IF "irrigation_logs" \in DOMAIN ss
    THEN ss
    ELSE [k \in {"irrigation_logs"} |-> <<>>]

\* st.session_state.irrigation_logs.append(data)
log_irrigation_data(ss, data) ==
    [ss EXCEPT !["irrigation_logs"] = Append(@, data)]

\* the columns pd.DataFrame derives from the keys of the logged dicts
LogColumns ==
    <<"datetime", "location", "crop", "soil_moisture", "temperature",
      "humidity", "rainfall", "weather", "irrigation", "priority">>

\* one line of df.to_csv(index=False)
CsvRow(e) ==
    <<ToString(e.datetime), e.location, e.crop, ToString(e.soil_moisture),
      ToString(e.temperature), ToString(e.humidity), ToString(e.rainfall),
      e.weather, e.irrigation, e.priority>>

\* export_logs(): the header line and one line per entry, or None (<<>>)
export_logs(logs) ==
    IF logs # <<>>
    THEN <<LogColumns>> \o [i \in 1..Len(logs) |-> CsvRow(logs[i])]
    ELSE <<>>

\* number of entries st.session_state.irrigation_logs[-5:] keeps
RecentCount == 5

\* the Python slice s[:n]
SliceFirst(s, n) ==
    IF n >= Len(s) THEN s ELSE SubSeq(s, 1, n)

\* the Python slice s[-n:]
SliceLast(s, n) ==
    IF n = 0 \/ n >= Len(s)
    THEN s
    ELSE SubSeq(s, Len(s) - n + 1, Len(s))

-----------------------------------------------------------------------------
(* The location guard.                                                     *)

Whitespace == {" ", "\t", "\n"}

RECURSIVE lstrip(_)
lstrip(s) ==
    IF s # <<>> /\ Head(s) \in Whitespace THEN lstrip(Tail(s)) ELSE s

RECURSIVE rstrip(_)
rstrip(s) ==
    IF s # <<>> /\ s[Len(s)] \in Whitespace
    THEN rstrip(SubSeq(s, 1, Len(s) - 1))
    ELSE s

\* strip that leaves the string as typed
strip_none(s) == s

\* str.strip() on a string given as its sequence of characters
strip(s) == rstrip(lstrip(s))

-----------------------------------------------------------------------------
(* What requests.get and the provider can produce.                         *)

\* the shape of a fetch outcome; transport "none" means no call was made
NoFetch ==
    [transport |-> "none", status |-> 0, reason |-> "", json |-> "none",
     cod |-> 0, cod_is_str |-> FALSE, has_message |-> FALSE, message |-> "",
     has_main |-> FALSE, temp |-> 0, humidity |-> 0, weather |-> "",
     has_rain |-> FALSE, rain |-> 0]

\* requests.get raised: ReadTimeout, ConnectTimeout, ConnectionError, TooManyRedirects
TransportFailure(cls) == [NoFetch EXCEPT !.transport = cls]

\* an HTTP response whose body is a JSON object with cod and, optionally, message
ProviderReply(status, reason, cod, codIsStr, hasMessage, message) ==
    [NoFetch EXCEPT !.transport = "ok", !.status = status, !.reason = reason,
                    !.json = "ok", !.cod = cod, !.cod_is_str = codIsStr,
                    !.has_message = hasMessage, !.message = message]

\* an HTTP 200 response whose body is not JSON; cls is what response.json() raises
BadBody(cls) ==
    [NoFetch EXCEPT !.transport = "ok", !.status = 200, !.reason = "OK", !.json = cls]

\* an HTTP 200 response with cod 200 but no 'main' object
NoMainReply ==
    [NoFetch EXCEPT !.transport = "ok", !.status = 200, !.reason = "OK",
                    !.json = "ok", !.cod = 200]

\* a complete weather report; hasRain tells whether rain.1h is present
WeatherReply(temp, humidity, weather, hasRain, rain) ==
    [NoFetch EXCEPT !.transport = "ok", !.status = 200, !.reason = "OK",
                    !.json = "ok", !.cod = 200, !.has_main = TRUE,
                    !.temp = temp, !.humidity = humidity, !.weather = weather,
                    !.has_rain = hasRain, !.rain = rain]

\* data.get("cod") != 200, where a cod given as a string never equals 200
CodIsNot200(net) == net.cod_is_str \/ net.cod # 200

\* data.get('message', 'Unknown error')
ProviderMessage(net) == IF net.has_message THEN net.message ELSE "Unknown error"

\* data.get('rain', {}).get('1h', 0.0)
Rainfall(net) == IF net.has_rain THEN net.rain ELSE 0

\* str(e) of the HTTPError raised by response.raise_for_status()
HTTPErrorText(net) ==
    <<ToString(net.status),
      IF net.status < 500 THEN " Client Error: " ELSE " Server Error: ",
      net.reason, " for url: https://api.openweathermap.org/data/2.5/weather">>

\* exception classes and the classes each one derives from
Ancestors(cls) ==
    CASE cls = "ReadTimeout"      -> {"ReadTimeout", "Timeout", "RequestException", "Exception"}
      [] cls = "ConnectTimeout"   -> {"ConnectTimeout", "ConnectionError", "Timeout",
                                      "RequestException", "Exception"}
      [] cls = "ConnectionError"  -> {"ConnectionError", "RequestException", "Exception"}
      [] cls = "TooManyRedirects" -> {"TooManyRedirects", "RequestException", "Exception"}
      [] cls = "HTTPError"        -> {"HTTPError", "RequestException", "Exception"}
      [] cls = "JSONDecodeError"  -> {"JSONDecodeError", "RequestException", "ValueError", "Exception"}
      [] OTHER                    -> {cls, "Exception"}

\* ExceptClauses with the ConnectionError clause ahead of the Timeout clause
ExceptClauses_connfirst(cls, str_e, labels) ==
    IF "ConnectionError" \in Ancestors(cls)
    THEN <<labels.error_api, " (Connection Error)">>
    ELSE IF "Timeout" \in Ancestors(cls)
    THEN <<labels.error_api, " (Timeout)">>
    ELSE IF "RequestException" \in Ancestors(cls)
    THEN <<labels.error_api, ": ">> \o str_e
    ELSE <<"An unexpected error occurred: ">> \o str_e

\* the except clauses, tried in order: what st.error is given
ExceptClauses(cls, str_e, labels) ==
    IF "Timeout" \in Ancestors(cls)
    THEN <<labels.error_api, " (Timeout)">>
    ELSE IF "ConnectionError" \in Ancestors(cls)
    THEN <<labels.error_api, " (Connection Error)">>
    ELSE IF "RequestException" \in Ancestors(cls)
    THEN <<labels.error_api, ": ">> \o str_e
    ELSE <<"An unexpected error occurred: ">> \o str_e

-----------------------------------------------------------------------------
(* The button handler.                                                     *)

\* LogData storing the engine's priority unconditionally
LogData_rawpriority(now, loc, crop, soil, net, advice, labels) ==
    [datetime      |-> now,
     location      |-> loc,
     crop          |-> crop,
     soil_moisture |-> soil,
     temperature   |-> net.temp,
     humidity      |-> net.humidity,
     rainfall      |-> IF net.has_rain THEN net.rain ELSE 0,
     weather       |-> net.weather,
     irrigation    |-> IF advice.irrigate THEN labels.recommended ELSE labels.not_needed,
     priority      |-> advice.priority]

\* the dict built as log_data
LogData(now, loc, crop, soil, net, advice, labels) ==
    [datetime      |-> now,
     location      |-> loc,
     crop          |-> crop,
     soil_moisture |-> soil,
     temperature   |-> net.temp,
     humidity      |-> net.humidity,
     rainfall      |-> Rainfall(net),
     weather       |-> net.weather,
     irrigation    |-> IF advice.irrigate THEN labels.recommended ELSE labels.not_needed,
     priority      |-> IF advice.irrigate THEN advice.priority ELSE "N/A"]

\* what a run of the handler leaves behind
Outcome(ss, n, err, recent, csv) ==
    [ss |-> ss, fetches |-> n, error |-> err, recent_logs |-> recent, csv_data |-> csv]

\* The body of  if st.button(...):  with its try block and except clauses.
\* render_fail names the place where a rendering call raises: "none",
\* "display" (the weather and advice display, before the log is written) or
\* "dashboard" (the tabs, after the log is written).
Handler(ss, loc, crop, soil, labels, now, net, render_fail) ==
    IF strip(loc) = <<>>
    THEN Outcome(ss, 0, <<"Please enter a valid location.">>, <<>>, <<>>)
    ELSE IF net.transport # "ok"
    THEN Outcome(ss, 1, ExceptClauses(net.transport, <<net.transport>>, labels), <<>>, <<>>)
    ELSE IF net.status >= 400
    THEN Outcome(ss, 1, ExceptClauses("HTTPError", HTTPErrorText(net), labels), <<>>, <<>>)
    ELSE IF net.json # "ok"
    THEN Outcome(ss, 1, ExceptClauses(net.json, <<"Expecting value">>, labels), <<>>, <<>>)
    ELSE IF CodIsNot200(net)
    THEN Outcome(ss, 1, <<labels.error_weather, ": ", ProviderMessage(net)>>, <<>>, <<>>)
    ELSE IF ~net.has_main
    THEN Outcome(ss, 1, ExceptClauses("KeyError", <<"'main'">>, labels), <<>>, <<>>)
    ELSE IF render_fail = "display"
    THEN Outcome(ss, 1, ExceptClauses("RuntimeError", <<"display">>, labels), <<>>, <<>>)
    ELSE
        LET advice == get_irrigation_advice(crop, soil, net.temp, net.humidity, Rainfall(net))
            ss2    == log_irrigation_data(ss, LogData(now, loc, crop, soil, net, advice, labels))
            logs   == ss2["irrigation_logs"]
        IN  IF render_fail = "dashboard"
            THEN Outcome(ss2, 1, ExceptClauses("RuntimeError", <<"dashboard">>, labels), <<>>, <<>>)
            ELSE Outcome(ss2, 1, <<>>, SliceLast(logs, RecentCount), export_logs(logs))

\* the sidebar's Quick Stats
QuickStats(logs, labels) ==
    IF logs # <<>>
    THEN [shown |-> TRUE,
          total_checks |-> Len(logs),
          irrigation_recommended |->
              Cardinality({i \in 1..Len(logs) : logs[i].irrigation # labels.not_needed})]
    ELSE [shown |-> FALSE, total_checks |-> 0, irrigation_recommended |-> 0]

\* One execution of the script.
ScriptRun(pressed, loc, crop, soil, lang, now, net, render_fail) ==
    LET labels == translations[lang]
        ss1    == InitSessionState(session_state)
        out    == IF pressed
                  THEN Handler(ss1, loc, crop, soil, labels, now, net, render_fail)
                  ELSE Outcome(ss1, 0, <<>>, <<>>, <<>>)
    IN  /\ session_state' = out.ss
        /\ button' = pressed
        /\ location' = loc
        /\ crop_type' = crop
        /\ soil_moisture' = soil
        /\ language' = lang
        /\ fetches' = out.fetches
        /\ fetched' = IF out.fetches = 0 THEN NoFetch ELSE net
        /\ error' = out.error
        /\ recent_logs' = out.recent_logs
        /\ csv_data' = out.csv_data
        /\ quick_stats' = QuickStats(out.ss["irrigation_logs"], labels)

\* the log of the session; empty while the key is missing
Logs == IF "irrigation_logs" \in DOMAIN session_state
        THEN session_state["irrigation_logs"]
        ELSE <<>>

-----------------------------------------------------------------------------
(* The session specification.                                              *)

LocationChoices == { <<>>, <<" ">>, <<" ", "P", "u", "n", "e">> }
CropChoices     == {"Wheat", "Rice"}
SoilChoices     == {50}
LanguageChoices == {"English", "Hindi"}
ClockChoices    == {1}
RenderFailures  == {"none", "display", "dashboard"}

WeatherReplies ==
    { WeatherReply(31, 35, "Clear", TRUE, 2),
      WeatherReply(20, 50, "Rain", TRUE, 9),
      WeatherReply(31, 50, "Clouds", FALSE, 0) }

FailureReplies ==
    { TransportFailure("ReadTimeout"),
      TransportFailure("ConnectTimeout"),
      TransportFailure("ConnectionError"),
      TransportFailure("TooManyRedirects"),
      ProviderReply(404, "Not Found", 404, TRUE, TRUE, "city not found"),
      ProviderReply(200, "OK", 404, FALSE, TRUE, "city not found"),
      ProviderReply(200, "OK", 429, FALSE, FALSE, ""),
      BadBody("JSONDecodeError"),
      BadBody("ValueError"),
      NoMainReply }

FetchOutcomes == WeatherReplies \cup FailureReplies

\* a fetch outcome with the place where rendering raises; rendering is only
\* reached with a complete weather report
FetchCases ==
    (WeatherReplies \X RenderFailures) \cup (FailureReplies \X {"none"})

NoArgs == [crop |-> "", soil |-> 0, temp |-> 0, humidity |-> 0, rainfall |-> 0]
NoResult == [called |-> FALSE, irrigate |-> FALSE, priority |-> "", water_score |-> 0]

Init ==
    /\ session_state = EmptySession
    /\ button = FALSE
    /\ location = <<" ">>
    /\ crop_type = "Wheat"
    /\ soil_moisture = 50
    /\ language = "English"
    /\ fetched = NoFetch
    /\ fetches = 0
    /\ error = <<>>
    /\ recent_logs = <<>>
    /\ csv_data = <<>>
    /\ quick_stats = [shown |-> FALSE, total_checks |-> 0, irrigation_recommended |-> 0]
    /\ args = NoArgs
    /\ result = NoResult

\* the script runs because a widget changed (or the page loaded)
Rerun ==
    \E loc \in LocationChoices, crop \in CropChoices, soil \in SoilChoices,
       lang \in LanguageChoices :
        /\ ScriptRun(FALSE, loc, crop, soil, lang, 1, NoFetch, "none")
        /\ UNCHANGED <<args, result>>

\* the script runs because "Get Irrigation Advice" was pressed
PressButton ==
    \E loc \in LocationChoices, crop \in CropChoices, soil \in SoilChoices,
       lang \in LanguageChoices, now \in ClockChoices, case \in FetchCases :
        /\ Len(Logs) < MaxLog
        /\ ScriptRun(TRUE, loc, crop, soil, lang, now, case[1], case[2])
        /\ UNCHANGED <<args, result>>

Next == Rerun \/ PressButton

Spec == Init /\ [][Next]_vars

-----------------------------------------------------------------------------
(* The history specification: the same script, fewer input values, a log   *)
(* long enough for the History tab to cut it.                              *)

HistoryLocations == { <<" ">>, <<"P", "u", "n", "e">> }
HistoryClock     == {1, 2}
HistoryReplies   ==
    { WeatherReply(31, 35, "Clear", TRUE, 2),
      WeatherReply(20, 50, "Rain", TRUE, 9),
      TransportFailure("ReadTimeout") }

HistoryRerun ==
    \E loc \in HistoryLocations :
        /\ ScriptRun(FALSE, loc, "Wheat", 50, "English", 1, NoFetch, "none")
        /\ UNCHANGED <<args, result>>

HistoryPressButton ==
    \E loc \in HistoryLocations, now \in HistoryClock, net \in HistoryReplies :
        /\ Len(Logs) < MaxHistory
        /\ ScriptRun(TRUE, loc, "Wheat", 50, "English", now, net, "none")
        /\ UNCHANGED <<args, result>>

NextHistory == HistoryRerun \/ HistoryPressButton

SpecHistory == Init /\ [][NextHistory]_vars

-----------------------------------------------------------------------------
(* The advice specification: get_irrigation_advice called directly.        *)

UnknownCrops  == {"Millet", "wheat", ""}
AdviceCrops   == CropNames \cup UnknownCrops
AdviceSoils   == {0, 29, 30, 31, 70, 100}
AdviceTemps   == {-5, 25, 26, 30, 31}
AdviceHumids  == {39, 40, 41}
AdviceRains   == {0, 2, 3, 8, 9}

InitAdvice ==
    /\ session_state = EmptySession
    /\ button = FALSE
    /\ location = <<" ">>
    /\ crop_type = "Wheat"
    /\ soil_moisture = 50
    /\ language = "English"
    /\ fetched = NoFetch
    /\ fetches = 0
    /\ error = <<>>
    /\ recent_logs = <<>>
    /\ csv_data = <<>>
    /\ quick_stats = [shown |-> FALSE, total_checks |-> 0, irrigation_recommended |-> 0]
    /\ args \in [crop : AdviceCrops, soil : AdviceSoils, temp : AdviceTemps,
                 humidity : AdviceHumids, rainfall : AdviceRains]
    /\ result = NoResult

CallAdvice ==
    /\ ~result.called
    /\ LET r == get_irrigation_advice(args.crop, args.soil, args.temp,
                                      args.humidity, args.rainfall)
       IN  result' = [called |-> TRUE, irrigate |-> r.irrigate,
                      priority |-> r.priority, water_score |-> r.water_score]
    /\ UNCHANGED <<sessionVars, args>>

NextAdvice == CallAdvice

SpecAdvice == InitAdvice /\ [][NextAdvice]_vars

-----------------------------------------------------------------------------
(* Properties.                                                             *)

\* the factors of a profile that hold for the given readings
FactorsOf(req, soil, temp, humidity, rainfall) ==
    { f \in {"low_moisture", "high_temp", "low_rainfall", "low_humidity"} :
        CASE f = "low_moisture" -> soil < req.min_moisture
          [] f = "high_temp"    -> temp > req.temp_threshold
          [] f = "low_rainfall" -> rainfall < req.rain_threshold
          [] f = "low_humidity" -> humidity < 40 }

\* number of factors that hold for a log entry, under the entry's own crop
EntryFactors(e) ==
    Cardinality(FactorsOf(crop_requirements[e.crop], e.soil_moisture,
                          e.temperature, e.humidity, e.rainfall))

\* number of factors that hold for the arguments of the direct call
ArgFactors(profile) ==
    Cardinality(FactorsOf(profile, args.soil, args.temp, args.humidity, args.rainfall))

\* the location holds nothing but whitespace
Blank(loc) == \A i \in 1..Len(loc) : loc[i] \in {" ", "\t", "\n"}

\* the log after a step extends the log before it by at most one entry
Extends(before, after) ==
    \/ after = before
    \/ /\ Len(after) = Len(before) + 1
       /\ SubSeq(after, 1, Len(before)) = before

Elements(seq) == { seq[i] : i \in 1..Len(seq) }

NotNeededLabels == { translations[l].not_needed : l \in Languages }

\* C1: for every crop of the table and all readings, the advice is
\* (false, Not Needed, 95) when 0 or 1 of the four strict factors hold,
\* (true, Medium Priority, 85) when exactly 2 hold and (true, High Priority, 75)
\* when 3 or 4 hold; a reading equal to its threshold does not count.
C1_AdviceTiers ==
    (result.called /\ args.crop \in CropNames) =>
        LET n == ArgFactors(crop_requirements[args.crop])
        IN  /\ n <= 1 => /\ result.irrigate = FALSE
                         /\ result.priority = "Not Needed"
                         /\ result.water_score = 95
            /\ n = 2  => /\ result.irrigate = TRUE
                         /\ result.priority = "Medium Priority"
                         /\ result.water_score = 85
            /\ n >= 3 => /\ result.irrigate = TRUE
                         /\ result.priority = "High Priority"
                         /\ result.water_score = 75

\* C1 witness: a call whose temperature equals the crop's threshold and whose
\* other readings make exactly one factor hold
C1_Witness ==
    /\ result.called
    /\ args.crop \in CropNames
    /\ args.temp = crop_requirements[args.crop].temp_threshold
    /\ ArgFactors(crop_requirements[args.crop]) = 1
    /\ result.priority = "Not Needed"

\* C2 (as claimed): a request that ends in an error, whatever the error,
\* leaves the log as it was.
C2_ErrorLeavesLog ==
    [][(button' /\ error' # <<>>) => Logs' = Logs]_vars

\* C3: a request with an empty or whitespace-only location is rejected with
\* an error, issues no fetch and leaves the log unchanged.
C3_BlankLocationRejected ==
    [][(button' /\ Blank(location')) =>
            /\ error' = <<"Please enter a valid location.">>
            /\ fetches' = 0
            /\ fetched' = NoFetch
            /\ Logs' = Logs]_vars

\* C3 witness: a whitespace-only location rejected in a session that already
\* holds a log entry
C3_Witness ==
    /\ button
    /\ location = <<" ">>
    /\ fetches = 0
    /\ error # <<>>
    /\ Logs # <<>>

\* C4 (as claimed): when the provider answers with a non-success status, by
\* HTTP status or by the cod field, and the reply carries a message, the
\* reported error carries that message and the log is unchanged.
C4_ProviderMessageReported ==
    [][(/\ button'
        /\ fetched'.transport = "ok"
        /\ fetched'.json = "ok"
        /\ fetched'.has_message
        /\ (fetched'.status >= 400 \/ fetched'.cod_is_str \/ fetched'.cod # 200))
       => (/\ fetched'.message \in Elements(error')
           /\ Logs' = Logs)]_vars

\* C5: a fetch that times out is reported as "(Timeout)", a connection
\* failure as "(Connection Error)"; either way one fetch is made and the
\* log is unchanged.
C5_TimeoutDistinct ==
    [][button' =>
         /\ fetched'.transport \in {"ReadTimeout", "ConnectTimeout"} =>
              /\ error' = <<translations[language'].error_api, " (Timeout)">>
              /\ fetches' = 1
              /\ Logs' = Logs
         /\ fetched'.transport = "ConnectionError" =>
              /\ error' = <<translations[language'].error_api, " (Connection Error)">>
              /\ fetches' = 1
              /\ Logs' = Logs]_vars

\* C5 witness: a connect timeout reported as a timeout with entries in the log
C5_Witness ==
    /\ button
    /\ fetched.transport = "ConnectTimeout"
    /\ error = <<translations[language].error_api, " (Timeout)">>
    /\ Logs # <<>>

\* C6: every script execution leaves the log unchanged or appends one entry
\* at its end, and a request that succeeds appends exactly one.
C6_AppendOnly ==
    [][/\ Extends(Logs, Logs')
       /\ (button' /\ error' = <<>>) =>
             /\ Len(Logs') = Len(Logs) + 1
             /\ SubSeq(Logs', 1, Len(Logs)) = Logs]_vars

\* C6 witness: a rerun without the button in a session holding two entries
C6_Witness ==
    /\ ~button
    /\ Len(Logs) >= 2
    /\ language = "Hindi"

\* C7: after a successful request the History tab shows the last
\* min(5, length) entries in insertion order, the last shown entry is the one
\* the request appended, and the export has one row per entry of the log.
C7_HistoryFaithful ==
    [][(button' /\ error' = <<>>) =>
         LET view == recent_logs'
             logs == Logs'
             k    == IF Len(logs) < 5 THEN Len(logs) ELSE 5
         IN  /\ Len(view) = k
             /\ \A i \in 1..k : view[i] = logs[Len(logs) - k + i]
             /\ logs = Append(Logs, view[Len(view)])
             /\ SliceLast(logs, 1) = <<logs[Len(logs)]>>
             /\ Len(csv_data') = Len(logs) + 1
             /\ csv_data'[1] = LogColumns]_vars

\* C7 witness: a successful request in a log longer than the History tab,
\* whose first and sixth-from-last entries differ
C7_Witness ==
    /\ button
    /\ error = <<>>
    /\ Len(Logs) > 5
    /\ Len(recent_logs) = 5
    /\ Logs[1] # recent_logs[1]

\* C8: for a crop that is not in the table the advice is the advice for
\* Wheat with the same readings.
C8_UnknownCropIsWheat ==
    (result.called /\ args.crop \notin CropNames) =>
        LET w == get_irrigation_advice("Wheat", args.soil, args.temp,
                                       args.humidity, args.rainfall)
        IN  /\ result.irrigate = w.irrigate
            /\ result.priority = w.priority
            /\ result.water_score = w.water_score
            /\ ArgFactors(crop_requirements["Wheat"]) >= 2 <=> result.irrigate

\* C8 witness: an unknown crop with readings that Wheat and Rice judge differently
C8_Witness ==
    /\ result.called
    /\ args.crop = "Millet"
    /\ result.irrigate = FALSE
    /\ ArgFactors(crop_requirements["Rice"]) >= 2

\* C9 (as claimed): the sidebar's Irrigation Recommended equals the number
\* of log entries whose advice was to irrigate, and Total Checks the length
\* of the log.
C9_QuickStatsCount ==
    quick_stats.shown =>
        /\ quick_stats.total_checks = Len(Logs)
        /\ quick_stats.irrigation_recommended =
               Cardinality({i \in 1..Len(Logs) : EntryFactors(Logs[i]) >= 2})

\* C10: every log entry agrees with the advice for its own stored values:
\* High Priority exactly for 3 or 4 factors, Medium Priority exactly for 2,
\* N/A exactly for 0 or 1, and a not-needed label exactly with N/A.
C10_EntriesConsistent ==
    \A i \in 1..Len(Logs) :
        LET e == Logs[i]
            n == EntryFactors(e)
        IN  /\ e.priority = "High Priority" <=> n >= 3
            /\ e.priority = "Medium Priority" <=> n = 2
            /\ e.priority = "N/A" <=> n <= 1
            /\ e.irrigation \in NotNeededLabels <=> e.priority = "N/A"

\* C10 witness: a log holding a not-needed entry written in Hindi and a
\* high-priority entry for Rice
C10_Witness ==
    \E i, j \in 1..Len(Logs) :
        /\ Logs[i].priority = "N/A"
        /\ Logs[i].irrigation = translations["Hindi"].not_needed
        /\ Logs[j].priority = "High Priority"
        /\ Logs[j].crop = "Rice"
        /\ EntryFactors(Logs[j]) = 4

====
